---- MODULE Spec2Model ----
(***************************************************************************)
(* The project-descriptor editing scripts of dual-camera-ios-app.          *)
(*                                                                         *)
(* Each script reads a project.pbxproj (of DualCameraApp.xcodeproj, or of  *)
(* DualApp.xcodeproj for Z/add_files_to_xcode.py), edits the               *)
(* text with string searches and regular expressions, and writes it back.  *)
(* The descriptor is modelled as the sequence of its lexical items (one    *)
(* item per line of a descriptor as Xcode writes it): section markers,     *)
(* record lines, list openers, list entries, list closers.  Every regular  *)
(* expression of the scripts is modelled by what it matches on that        *)
(* sequence, including lazy quantifiers running across record boundaries   *)
(* and str.replace replacing every occurrence.                             *)
(*                                                                         *)
(* Identifiers are numbers:                                                *)
(*   0 .. 999     the 25-character ids  A10000nn294A0000000000001          *)
(*                (n is the value of the 8-digit prefix minus 0xA1000000)  *)
(*   1000 .. 1999 the 25-character ids  A10000nn294A0000000000000          *)
(*   2000 .. 2999 24-digit hexadecimal ids (what uuid4().hex[:24] and      *)
(*                md5(..).hexdigest()[:24] give)                           *)
(*   3000 .. 3999 the 25-character ids  A20000nn294A0000000000001          *)
(*   4000 .. 4999 the 41-character ids  <24 digits>294A0000000000001       *)
(***************************************************************************)
EXTENDS Integers, Sequences, FiniteSets, TLC

VARIABLES
    content,        \* the descriptor on disk
    prev,           \* the descriptor before the last run
    log,            \* the runs so far: which script, and whether it reported success
    disk,           \* the file names a run works on: the .swift files of the directory
                    \* DualCameraApp, or the list files_to_add
    pos,            \* add_essential_files.py: number of essential_files main() is through with
    success_count,  \* add_essential_files.py: success_count of main()
    add_file_rb     \* add_essential_files.py: the temporary script add_file.rb exists

\* the state of the batch run of add_essential_files.py
batch == <<pos, success_count, add_file_rb>>

vars == <<content, prev, log, disk, batch>>

\* no directory listing is read and no batch run is under way
NoBatch == disk = <<>> /\ pos = 0 /\ success_count = 0 /\ add_file_rb = FALSE

(***************************************************************************)
(* Bounds                                                                  *)
(***************************************************************************)
\* number of script runs in one behaviour
MaxRuns == 2
\* number of names of files_to_add that add_swift_files.py and fix_project.py add
NumSwiftFiles == 2
\* number of random identifiers of one run that repeat an identifier
MaxCollisions == 1
\* number of files the glob calls of Z/add_files_to_xcode.py find at most
MaxFiles == 2
\* number of entries of the list frameworks of Z/add_files_to_xcode.py
NumFrameworks == 1
\* number of .swift files in the directory DualCameraApp at most
MaxDir == 2

(***************************************************************************)
(* Identifier families                                                     *)
(***************************************************************************)
IdSuffix1(n) == n
IdSuffix0(n) == 1000 + n
IdHex(n) == 2000 + n
IdA2(n) == 3000 + n
\* 24 random digits followed by 294A0000000000001: 41 characters
IdLong(n) == 4000 + n

\* (\w+294A0000000000001): the id ends in 294A0000000000001
HasSuffix1(id) == id \in (0..999) \cup (3000..3999)
\* an id of exactly 24 hexadecimal digits
Is24Hex(id) == id \in 2000..2999
\* A2[A-F0-9]{23} / A2[0-9A-F]+ : an id of 25 digits that starts with A2
IsA2(id) == id \in 3000..3999

(***************************************************************************)
(* Lexical items of the descriptor                                         *)
(*   k     kind of item                                                    *)
(*   id    the identifier the item starts with (or -1)                     *)
(*   name  the annotation between the comment marks                       *)
(*   ph    the word after "in" of a build-file annotation (Sources, ...)   *)
(*   ref   fileRef of a PBXBuildFile record (or -1)                        *)
(*   path  path of a PBXFileReference record                               *)
(*   ind   number of tabs between the preceding newline and the item       *)
(***************************************************************************)
Tok(k, id, name, ph, ref, path, ind) ==
    [k |-> k, id |-> id, name |-> name, ph |-> ph, ref |-> ref, path |-> path, ind |-> ind]

\* /* Begin <isa> section */  and  /* End <isa> section */
Begin(isa) == Tok("Begin", -1, isa, "", -1, "", 0)
End(isa) == Tok("End", -1, isa, "", -1, "", 0)
\* <id> /* <name> in <ph> */ = {isa = PBXBuildFile; fileRef = <ref> /* <name> */; };
BuildFile(id, name, ph, ref) == Tok("BuildFile", id, name, ph, ref, "", 2)
\* <id> /* <name> */ = {isa = PBXFileReference; ...; path = <path>; sourceTree = ...; };
FileRef(id, name, path) == Tok("FileRef", id, name, "", -1, path, 2)
\* <id> /* <name> */ = {      (first line of a multi-line record)
RecHead(id, name) == Tok("Head", id, name, "", -1, "", 2)
\* isa = <isa>;
Isa(isa) == Tok("Isa", -1, isa, "", -1, "", 3)
\* buildActionMask = 2147483647;
Mask == Tok("Mask", -1, "", "", -1, "", 3)
\* files = (   children = (   buildPhases = (
Open(list) == Tok("Open", -1, list, "", -1, "", 3)
\* <id> /* <name> in <ph> */,      (entry of a files list)
Member(id, name, ph, ind) == Tok("Member", id, name, ph, -1, "", ind)
\* <id> /* <name> */,              (entry of a children or buildPhases list)
Child(id, name, ind) == Tok("Child", id, name, "", -1, "", ind)
\* );
Close(ind) == Tok("Close", -1, "", "", -1, "", ind)
\* runOnlyForDeploymentPostprocessing = 0;
RunOnly == Tok("RunOnly", -1, "", "", -1, "", 3)
\* name = <name>;   path = <name>;
Attr(key, name) == Tok("Attr", -1, name, key, -1, "", 3)
\* };
ObjEnd == Tok("ObjEnd", -1, "", "", -1, "", 2)
\* what is left of a line after a regular expression removed part of it
Junk(t) == Tok("Junk", -1, t.name, t.ph, -1, t.path, t.ind)

(***************************************************************************)
(* Sequence helpers                                                        *)
(***************************************************************************)
Min(a, b) == IF a < b THEN a ELSE b
Max(a, b) == IF a > b THEN a ELSE b

\* ss[lo] \o ... \o ss[hi] for a sequence ss of sequences
RECURSIVE Flatten(_, _, _)
Flatten(ss, lo, hi) ==
    IF lo > hi THEN <<>>
    ELSE IF lo = hi THEN ss[lo]
    ELSE Flatten(ss, lo, (lo + hi) \div 2) \o Flatten(ss, (lo + hi) \div 2 + 1, hi)

\* list.insert(i, ..) for each x of xs in order: xs end up before s[i]
InsertBefore(s, i, xs) == SubSeq(s, 1, i - 1) \o xs \o SubSeq(s, i, Len(s))

\* least position of the set H, or 0
First(H) == IF H = {} THEN 0 ELSE CHOOSE i \in H : \A j \in H : i <= j

\* greatest position of the set H, or 0
LastPos(H) == IF H = {} THEN 0 ELSE CHOOSE i \in H : \A j \in H : i >= j

\* the positions of s that hold the item t
At(s, t) == {i \in 1..Len(s) : s[i] = t}

\* Python's s[a:b] for b >= 0 (a may be negative: counted from the end)
PySlice(s, a, b) ==
    LET lo == IF a < 0 THEN Max(0, Len(s) + a) ELSE a
        hi == Min(b, Len(s))
    IN  IF lo < hi THEN SubSeq(s, lo + 1, hi) ELSE <<>>

Range(s) == {s[i] : i \in 1..Len(s)}

Last(s) == s[Len(s)]

(***************************************************************************)
(* File names                                                              *)
(***************************************************************************)
\* names the pattern (.+\.swift) accepts
SwiftNames ==
    {"AppDelegate.swift", "CameraPreviewView.swift", "VisualCountdownView.swift",
     "SettingsManager.swift", "TripleOutputControlView.swift", "CameraControlsView.swift",
     "AdvancedCameraControlsManager.swift", "AudioControlsView.swift",
     "ZoomControl.swift", "FlashControl.swift", "TimerControl.swift",
     "FocusExposureControl.swift", "A.swift", "B.swift"}

(***************************************************************************)
(* add_essential_files_simple.py                                           *)
(***************************************************************************)
EssentialFiles ==
    <<"VisualCountdownView.swift", "SettingsManager.swift", "TripleOutputControlView.swift",
      "CameraControlsView.swift", "AdvancedCameraControlsManager.swift",
      "AudioControlsView.swift">>

\* build_file_matches: (\w+294A0000000000001) /* (.+\.swift) in Sources */ = {isa = PBXBuildFile
SimpleBuildFileMatches(c) ==
    {i \in 1..Len(c) : c[i].k = "BuildFile" /\ HasSuffix1(c[i].id) /\ c[i].name \in SwiftNames
                        /\ c[i].ph = "Sources"}

\* file_ref_matches: (\w+294A0000000000001) /* (.+\.swift) */ = {isa = PBXFileReference
SimpleFileRefMatches(c) ==
    {i \in 1..Len(c) : c[i].k = "FileRef" /\ HasSuffix1(c[i].id) /\ c[i].name \in SwiftNames}

\* sources_phase_pattern: /* Begin PBXSourcesBuildPhase section */.*?/* End PBXSourcesBuildPhase section */
SimpleSourcesMatch(c) ==
    \E i \in 1..Len(c) : c[i] = Begin("PBXSourcesBuildPhase") /\
        \E j \in (i + 1)..Len(c) : c[j] = End("PBXSourcesBuildPhase")

\* group_pattern: A1000018294A0000000000001 /* DualCameraApp */ = {.*?children = ((.*?));
SimpleGroupMatch(c) ==
    \E i \in 1..Len(c) : c[i].k = "Head" /\ c[i].id = IdSuffix1(24) /\ c[i].name = "DualCameraApp" /\
        \E j \in (i + 1)..Len(c) : c[j] = Open("children") /\
            \E l \in (j + 1)..Len(c) : c[l].k = "Close"

\* the ids and the four entries of file number i (1-based here, i - 1 in the code)
SimpleBuildId(c, i) == c[LastPos(SimpleBuildFileMatches(c))].id + (i - 1) + 1
SimpleFileRefId(c, i) == c[LastPos(SimpleFileRefMatches(c))].id + (i - 1) + 1

SimpleBuildFileAdditions(c) ==
    [i \in 1..Len(EssentialFiles) |->
        BuildFile(SimpleBuildId(c, i), EssentialFiles[i], "Sources", SimpleFileRefId(c, i))]
SimpleFileRefAdditions(c) ==
    [i \in 1..Len(EssentialFiles) |->
        FileRef(SimpleFileRefId(c, i), EssentialFiles[i], EssentialFiles[i])]
SimpleSourcesAdditions(c) ==
    [i \in 1..Len(EssentialFiles) |-> Member(SimpleBuildId(c, i), EssentialFiles[i], "Sources", 3)]
SimpleGroupAdditions(c) ==
    [i \in 1..Len(EssentialFiles) |-> Child(SimpleFileRefId(c, i), EssentialFiles[i], 3)]

\* insert xs before the first of the lines at the positions H, if there is one
InsertAtFirst(lines, H, xs) ==
    IF H = {} THEN lines ELSE InsertBefore(lines, First(H), xs)

\* the line is exactly the text PBXSourcesBuildPhase
BareLine(text) == Tok("Bare", -1, text, "", -1, "", 0)

\* 'runOnlyForDeploymentPostprocessing = 0;' in line and i > 0
\*     and 'PBXSourcesBuildPhase' in lines[i-5:i]        (i is 0-based)
SimpleSourcesInsertPos(lines) ==
    LET Hit(p) == lines[p].k = "RunOnly" /\ p - 1 > 0 /\
                  BareLine("PBXSourcesBuildPhase") \in Range(PySlice(lines, p - 1 - 5, p - 1))
    IN  IF \E p \in 1..Len(lines) : Hit(p)
        THEN CHOOSE p \in 1..Len(lines) : Hit(p) /\ \A q \in 1..(p - 1) : ~Hit(q)
        ELSE 0

\* the content written by add_files_to_project() when it returns True
SimpleEdit(c) ==
    LET l1 == InsertAtFirst(c, At(c, End("PBXBuildFile")), SimpleBuildFileAdditions(c))
        l2 == InsertAtFirst(l1, At(l1, End("PBXFileReference")), SimpleFileRefAdditions(c))
        sp == SimpleSourcesInsertPos(l2)
        l3 == IF sp = 0 THEN l2 ELSE InsertBefore(l2, sp, SimpleSourcesAdditions(c))
        l4 == InsertAtFirst(l3,
                  {i \in 1..Len(l3) : l3[i].k = "Child" /\ l3[i].id = IdSuffix1(25)
                                       /\ l3[i].name = "Products"},
                  SimpleGroupAdditions(c))
    IN  l4

SimpleFound(c) ==
    /\ SimpleBuildFileMatches(c) # {}
    /\ SimpleFileRefMatches(c) # {}
    /\ SimpleSourcesMatch(c)
    /\ SimpleGroupMatch(c)

Record(op, ok) == [op |-> op, ok |-> ok]

AddEssentialFilesSimple ==
    /\ Len(log) < MaxRuns
    /\ prev' = content
    /\ UNCHANGED <<disk, batch>>
    /\ IF SimpleFound(content)
       THEN /\ content' = SimpleEdit(content)
            /\ log' = Append(log, Record("add_essential_files_simple", TRUE))
       ELSE /\ content' = content
            /\ log' = Append(log, Record("add_essential_files_simple", FALSE))

(***************************************************************************)
(* comprehensive_fix.py and fix_project_files.py                           *)
(***************************************************************************)
\* s with xs spliced in after every position of H
SpliceAfter(s, H, xs) ==
    Flatten([i \in 1..Len(s) |-> <<s[i]>> \o (IF i \in H THEN xs ELSE <<>>)], 1, Len(s))

\* the six hard-coded Sources members A1000033 .. A1000038
FixSourcesIds == [i \in 1..6 |-> IdSuffix1(50 + i)]
\* the six hard-coded group children A1000034 .. A1000039
FixGroupIds == [i \in 1..6 |-> IdSuffix1(51 + i)]

InfoPlistChild(t) == t.k = "Child" /\ t.id = IdSuffix1(23) /\ t.name = "Info.plist"
CameraPreviewMember(t) ==
    t.k = "Member" /\ t.id = IdSuffix1(50) /\ t.name = "CameraPreviewView.swift" /\ t.ph = "Sources"

\* a replacement whose old text is the entry line alone, without the closer
ReplaceAtEntry(c, entries, xs) == SpliceAfter(c, entries, xs)

\* content.replace(old, new) where old is  '\t\t\t<entry>,\n\t\t);' : every entry
\* line with at least three tabs before it that is directly followed by a
\* closer with exactly two tabs before it gets the new lines after it
ReplaceListEnd(c, entries, xs) ==
    LET H == {i \in entries : c[i].ind >= 3 /\ i < Len(c) /\ c[i + 1] = Close(2)}
    IN  SpliceAfter(c, H, xs)

ComprehensiveGroupFixed ==
    [i \in 1..Len(EssentialFiles) |-> Child(FixGroupIds[i], EssentialFiles[i], 3)]
ComprehensiveSourcesFixed ==
    [i \in 1..Len(EssentialFiles) |-> Member(FixSourcesIds[i], EssentialFiles[i], "Sources", 3)]

\* the content written by fix_project() of comprehensive_fix.py
ComprehensiveEdit(c) ==
    LET c1 == ReplaceListEnd(c, {i \in 1..Len(c) : InfoPlistChild(c[i])}, ComprehensiveGroupFixed)
    IN  ReplaceListEnd(c1, {i \in 1..Len(c1) : CameraPreviewMember(c1[i])},
                       ComprehensiveSourcesFixed)

ComprehensiveFix ==
    /\ Len(log) < MaxRuns
    /\ prev' = content
    /\ UNCHANGED <<disk, batch>>
    /\ content' = ComprehensiveEdit(content)
    /\ log' = Append(log, Record("comprehensive_fix", TRUE))

\* re.search for a pattern of the shape
\*   (<head> <fixed lines> .*? <anchor entry>,\s*)(<after>)
\* heads: positions of the head line; fixed: the lines that must follow it;
\* anchors: positions of the anchor entry at which <after> matches.
\* The match starts at the first head that can be completed and ends at the
\* first anchor behind its fixed lines; the result is that anchor, or 0.
AnchorPos(c, heads, fixed, anchors) ==
    LET Hits(h) == {m \in anchors : h \in heads /\ h + Len(fixed) <= Len(c) /\
                                     SubSeq(c, h + 1, h + Len(fixed)) = fixed /\
                                     m > h + Len(fixed)}
        h0 == First({h \in 1..Len(c) : Hits(h) # {}})
    IN  IF h0 = 0 THEN 0 ELSE First(Hits(h0))

\* files_to_add / files_to_add_to_group of fix_project_files.py, written with
\* four tabs; the first one follows the white space that stood before <after>
FixFilesEntries(kind, ids, firstInd) ==
    [i \in 1..Len(EssentialFiles) |->
        IF kind = "Member"
        THEN Member(ids[i], EssentialFiles[i], "Sources", IF i = 1 THEN firstInd + 4 ELSE 4)
        ELSE Child(ids[i], EssentialFiles[i], IF i = 1 THEN firstInd + 4 ELSE 4)]

\* sources_pattern and replace_sources
FixFilesSources(c) ==
    LET m == AnchorPos(c,
                 {i \in 1..Len(c) : c[i].k = "Head" /\ c[i].id = IdSuffix0(34) /\ c[i].name = "Sources"},
                 <<Isa("PBXSourcesBuildPhase"), Mask, Open("files")>>,
                 {i \in 1..(Len(c) - 1) : CameraPreviewMember(c[i]) /\ c[i + 1].k = "Close"})
    IN  IF m = 0 THEN c
        ELSE SubSeq(c, 1, m)
             \o FixFilesEntries("Member", FixSourcesIds, c[m + 1].ind)
             \o <<Close(0)>> \o SubSeq(c, m + 2, Len(c))

AssetsChild(t) == t.k = "Child" /\ t.id = IdSuffix1(22) /\ t.name = "Assets.xcassets"

\* group_pattern and replace_group
FixFilesGroup(c) ==
    LET m == AnchorPos(c,
                 {i \in 1..Len(c) : c[i].k = "Head" /\ c[i].id = IdSuffix1(24) /\ c[i].name = "DualCameraApp"},
                 <<Isa("PBXGroup"), Open("children")>>,
                 {i \in 1..(Len(c) - 2) : c[i].k = "Child" /\ c[i].id = IdSuffix1(51) /\
                                           c[i].name = "CameraPreviewView.swift" /\ AssetsChild(c[i + 1])})
    IN  IF m = 0 THEN c
        ELSE SubSeq(c, 1, m)
             \o FixFilesEntries("Child", FixGroupIds, Max(c[m + 1].ind - 1, 0))
             \o <<Child(c[m + 1].id, c[m + 1].name, Min(c[m + 1].ind, 1))>>
             \o SubSeq(c, m + 2, Len(c))

\* the content written by fix_project_pbxproj()
FixFilesEdit(c) == FixFilesGroup(FixFilesSources(c))

FixProjectFiles ==
    /\ Len(log) < MaxRuns
    /\ prev' = content
    /\ UNCHANGED <<disk, batch>>
    /\ content' = FixFilesEdit(content)
    /\ log' = Append(log, Record("fix_project_files", TRUE))

(***************************************************************************)
(* Descriptors of the DualCameraApp project (ids A10000nn294A...)          *)
(***************************************************************************)
\* ci: tabs before a list closer (entries have one more)
\* infoLast: the DualCameraApp group ends with Info.plist (else with Assets)
\* products: the main group lists the Products group
\* group: the DualCameraApp group record is present
DescA(ci, infoLast, products, group) ==
    <<Begin("PBXBuildFile"),
      BuildFile(IdSuffix1(49), "AppDelegate.swift", "Sources", IdSuffix1(1)),
      BuildFile(IdSuffix1(50), "CameraPreviewView.swift", "Sources", IdSuffix1(51)),
      End("PBXBuildFile"),
      Begin("PBXFileReference"),
      FileRef(IdSuffix1(1), "AppDelegate.swift", "AppDelegate.swift"),
      FileRef(IdSuffix1(22), "Assets.xcassets", "Assets.xcassets"),
      FileRef(IdSuffix1(23), "Info.plist", "Info.plist"),
      FileRef(IdSuffix1(51), "CameraPreviewView.swift", "CameraPreviewView.swift"),
      End("PBXFileReference"),
      Begin("PBXGroup"),
      RecHead(IdSuffix1(20), ""), Isa("PBXGroup"), Open("children")>>
    \o (IF group THEN <<Child(IdSuffix1(24), "DualCameraApp", ci + 1)>> ELSE <<>>)
    \o (IF products THEN <<Child(IdSuffix1(25), "Products", ci + 1)>> ELSE <<>>)
    \o <<Close(ci), ObjEnd>>
    \o (IF group
        THEN <<RecHead(IdSuffix1(24), "DualCameraApp"), Isa("PBXGroup"), Open("children"),
               Child(IdSuffix1(1), "AppDelegate.swift", ci + 1),
               Child(IdSuffix1(51), "CameraPreviewView.swift", ci + 1)>>
             \o (IF infoLast
                 THEN <<Child(IdSuffix1(22), "Assets.xcassets", ci + 1),
                        Child(IdSuffix1(23), "Info.plist", ci + 1)>>
                 ELSE <<Child(IdSuffix1(23), "Info.plist", ci + 1),
                        Child(IdSuffix1(22), "Assets.xcassets", ci + 1)>>)
             \o <<Close(ci), Attr("path", "DualCameraApp"), ObjEnd>>
        ELSE <<>>)
    \o (IF products
        THEN <<RecHead(IdSuffix1(25), "Products"), Isa("PBXGroup"), Open("children"),
               Close(ci), Attr("name", "Products"), ObjEnd>>
        ELSE <<>>)
    \o <<End("PBXGroup"),
         Begin("PBXSourcesBuildPhase"),
         RecHead(IdSuffix0(34), "Sources"), Isa("PBXSourcesBuildPhase"), Mask, Open("files"),
         Member(IdSuffix1(49), "AppDelegate.swift", "Sources", ci + 1),
         Member(IdSuffix1(50), "CameraPreviewView.swift", "Sources", ci + 1),
         Close(ci), RunOnly, ObjEnd,
         End("PBXSourcesBuildPhase")>>

DescriptorsA ==
    {DescA(ci, infoLast, products, group) :
        ci \in {2, 3}, infoLast \in BOOLEAN, products \in BOOLEAN, group \in BOOLEAN}

(***************************************************************************)
(* The scripts that edit the DualCameraApp project with hard-coded ids     *)
(***************************************************************************)
Init ==
    /\ content \in DescriptorsA
    /\ prev = content
    /\ log = <<>>
    /\ NoBatch

Next ==
    \/ AddEssentialFilesSimple
    \/ ComprehensiveFix
    \/ FixProjectFiles

Spec == Init /\ [][Next]_vars

(***************************************************************************)
(* Text spans and random identifiers                                       *)
(***************************************************************************)
\* the items s[a..b] with the white space before the first one left out
\* (a regular-expression group that starts at an item starts after it)
Span(s, a, b) == <<[s[a] EXCEPT !.ind = 0]>> \o SubSeq(s, a + 1, b)

\* the position at which the text of span occurs in c first, or 0
SpanPos(c, span) ==
    First({p \in 1..(Len(c) - Len(span) + 1) : Span(c, p, p + Len(span) - 1) = span})

\* content.replace(old, new): every occurrence of the text of old, left to right
RECURSIVE ReplaceSpan(_, _, _)
ReplaceSpan(c, old, new) ==
    LET p == SpanPos(c, old)
    IN  IF p = 0 THEN c
        ELSE SubSeq(c, 1, p - 1)
             \o <<[new[1] EXCEPT !.ind = c[p].ind]>> \o Tail(new)
             \o ReplaceSpan(SubSeq(c, p + Len(old), Len(c)), old, new)

\* text.strip() of a run of lines: the first loses the white space before it
Strip(s) == IF s = <<>> THEN s ELSE Span(s, 1, Len(s))

\* every identifier of 24 hexadecimal digits that occurs in the descriptor
Hex24Ids(c) ==
    {c[i].id : i \in {j \in 1..Len(c) : Is24Hex(c[j].id)}}
        \cup {c[i].ref : i \in {j \in 1..Len(c) : Is24Hex(c[j].ref)}}

\* a value of uuid.uuid4().hex[:24].upper() that is not in used (which one
\* makes no difference: the scripts only compare identifiers for equality)
FreshUuid(used) ==
    IdHex(CHOOSE n \in 1..(Cardinality(used) + 1) :
              IdHex(n) \notin used /\ \A m \in 1..(n - 1) : IdHex(m) \in used)

\* the outcomes of k successive draws of uuid.uuid4().hex[:24].upper(): each
\* draw is a new value or, at most MaxCollisions times in a run, a value that
\* is already in the descriptor or was drawn before (nothing checks a draw)
RECURSIVE UuidDraws(_, _, _)
UuidDraws(used, k, budget) ==
    IF k = 0 THEN {<<>>}
    ELSE {<<FreshUuid(used)>> \o r : r \in UuidDraws(used \cup {FreshUuid(used)}, k - 1, budget)}
         \cup (IF budget = 0 THEN {}
               ELSE UNION {{<<x>> \o r : r \in UuidDraws(used, k - 1, budget - 1)} : x \in used})

(***************************************************************************)
(* add_swift_files.py                                                      *)
(***************************************************************************)
AllSwiftFiles ==
    <<"ZoomControl.swift", "FlashControl.swift", "TimerControl.swift",
      "FocusExposureControl.swift">>

\* files_to_add, cut to its first NumSwiftFiles names
SwiftFiles == SubSeq(AllSwiftFiles, 1, NumSwiftFiles)

\* the section /* Begin <isa> section */.*?/* End <isa> section */ : <<first, last>>
\* positions, or <<0, 0>>
SectionOf(c, isa) ==
    LET b == First(At(c, Begin(isa)))
        e == First({i \in At(c, End(isa)) : i > b})
    IN  IF b = 0 \/ e = 0 THEN <<0, 0>> ELSE <<b, e>>

\* the positions of the text /* Sources */
SourcesAnnotations(c) == {i \in 1..Len(c) : c[i].k \in {"Head", "Child"} /\ c[i].name = "Sources"}

\* the first position after p that holds an item of the set ts, or 0
NextAfter(c, p, ts) == IF p = 0 THEN 0 ELSE First({i \in (p + 1)..Len(c) : c[i] \in ts})
NextCloseAfter(c, p) == IF p = 0 THEN 0 ELSE First({i \in (p + 1)..Len(c) : c[i].k = "Close"})

\* sources_build_phase:
\*   (/* Sources */.*?isa = PBXSourcesBuildPhase;.*?files = \((.*?)\);)
\* <<opener, closer>> of the list that is group(2), or <<0, 0>>
SwiftSourcesSearch(c) ==
    LET s == First(SourcesAnnotations(c))
        a == NextAfter(c, s, {Isa("PBXSourcesBuildPhase")})
        o == NextAfter(c, a, {Open("files")})
        z == NextCloseAfter(c, o)
    IN  IF z = 0 THEN <<0, 0>> ELSE <<o, z>>

\* re.sub(r'(/* Sources */.*?files = \().*?(\);)', ..., count=1):
\* <<opener, closer>> of the list that is rewritten, or <<0, 0>>
SwiftSourcesSub(c) ==
    LET s == First(SourcesAnnotations(c))
        o == NextAfter(c, s, {Open("files")})
        z == NextCloseAfter(c, o)
    IN  IF z = 0 THEN <<0, 0>> ELSE <<o, z>>

\* group_section:
\*   (A2[0-9A-F]+ /* DualCameraApp */ = {.*?children = \((.*?)\);.*?name = DualCameraApp;)
\* <<head, opener, closer, last>> or <<0, 0, 0, 0>>
SwiftGroupSearch(c) ==
    LET Ends(g) ==
            LET o == NextAfter(c, g, {Open("children")})
                z == NextCloseAfter(c, o)
                e == NextAfter(c, z, {Attr("name", "DualCameraApp")})
            IN  <<g, o, z, e>>
        g0 == First({g \in 1..Len(c) : c[g].k = "Head" /\ IsA2(c[g].id) /\
                                       c[g].name = "DualCameraApp" /\ Ends(g)[4] # 0})
    IN  IF g0 = 0 THEN <<0, 0, 0, 0>> ELSE Ends(g0)

SwiftFileRefId(draws, i) == draws[2 * i - 1]
SwiftBuildFileId(draws, i) == draws[2 * i]

SwiftNewFileRefs(draws) ==
    [i \in 1..Len(SwiftFiles) |-> FileRef(SwiftFileRefId(draws, i), SwiftFiles[i], SwiftFiles[i])]
SwiftNewBuildFiles(draws) ==
    [i \in 1..Len(SwiftFiles) |->
        BuildFile(SwiftBuildFileId(draws, i), SwiftFiles[i], "Sources", SwiftFileRefId(draws, i))]
SwiftNewMembers(draws) ==
    [i \in 1..Len(SwiftFiles) |-> Member(SwiftBuildFileId(draws, i), SwiftFiles[i], "Sources", 4)]
SwiftNewChildren(draws) ==
    [i \in 1..Len(SwiftFiles) |-> Child(SwiftFileRefId(draws, i), SwiftFiles[i], 4)]

\* content.replace(section, section.replace(<End marker>, new + <End marker>))
SwiftInsertInSection(c, sec, cur, new) ==
    LET old == Span(c, sec[1], sec[2])
    IN  ReplaceSpan(cur, old, SubSeq(old, 1, Len(old) - 1) \o new \o <<Last(old)>>)

\* the three searches without which the script stops with an exception
SwiftFound(c) ==
    /\ SectionOf(c, "PBXFileReference")[1] # 0
    /\ SectionOf(c, "PBXBuildFile")[1] # 0
    /\ SwiftSourcesSearch(c)[1] # 0

\* the content the script writes
SwiftEdit(c, draws) ==
    LET c1 == SwiftInsertInSection(c, SectionOf(c, "PBXFileReference"), c, SwiftNewFileRefs(draws))
        c2 == SwiftInsertInSection(c, SectionOf(c, "PBXBuildFile"), c1, SwiftNewBuildFiles(draws))
        src == SwiftSourcesSearch(c)
        source_files == Strip(SubSeq(c, src[1] + 1, src[2] - 1))
        sub == SwiftSourcesSub(c2)
        c3 == SubSeq(c2, 1, sub[1]) \o source_files \o SwiftNewMembers(draws)
              \o <<Close(3)>> \o SubSeq(c2, sub[2] + 1, Len(c2))
        grp == SwiftGroupSearch(c)
        old_group == Span(c, grp[1], grp[4])
        children == Strip(SubSeq(c, grp[2] + 1, grp[3] - 1))
        new_group == SubSeq(old_group, 1, grp[2] - grp[1] + 1)
                     \o children \o SwiftNewChildren(draws) \o <<Close(3)>>
                     \o SubSeq(old_group, grp[3] - grp[1] + 2, Len(old_group))
    IN  IF grp[1] = 0 THEN c3 ELSE ReplaceSpan(c3, old_group, new_group)

AddSwiftFiles ==
    /\ Len(log) < MaxRuns
    /\ prev' = content
    /\ UNCHANGED <<disk, batch>>
    /\ \E draws \in UuidDraws(Hex24Ids(content), 2 * Len(SwiftFiles), MaxCollisions) :
         IF SwiftFound(content)
         THEN /\ content' = SwiftEdit(content, draws)
              /\ log' = Append(log, Record("add_swift_files", TRUE))
         ELSE /\ content' = content
              /\ log' = Append(log, Record("add_swift_files", FALSE))

(***************************************************************************)
(* fix_project.py                                                          *)
(***************************************************************************)
\* generate_id(filename) = md5("com.dualcamera." + filename).hexdigest()[:24].upper()
\*   ZoomControl.swift                 D0176F399AE93F30FC790A70
\*   build_ZoomControl.swift           3ABD5BEA1936338D45EAA39D
\*   FlashControl.swift                EA066B04FB8A2629C4E6AAE4
\*   build_FlashControl.swift          D2AB49B61F99ADF67A3E80B2
\*   TimerControl.swift                E5467126C91AE54F3210C450
\*   build_TimerControl.swift          CAE167E45345D7FDA8CBC94C
\*   FocusExposureControl.swift        13F56600E7409B90F6F978F2
\*   build_FocusExposureControl.swift  6E3C4506A54F0A9697D2813C
\* md5 is modelled as a function that gives different values for different
\* texts; the texts are the names of files_to_add with "build_" put in front
\* of them up to two times
generate_id(filename) ==
    LET nk == CHOOSE v \in (1..Len(AllSwiftFiles)) \X (0..2) :
                  filename = (CASE v[2] = 0 -> ""
                                [] v[2] = 1 -> "build_"
                                [] v[2] = 2 -> "build_build_") \o AllSwiftFiles[v[1]]
    IN  IdHex(900 + 3 * nk[1] + nk[2])

\* new_file_refs and new_build_files as the loop over files_to_add builds them
new_file_refs(files) ==
    [i \in 1..Len(files) |-> FileRef(generate_id(files[i]), files[i], files[i])]
new_build_files(files) ==
    [i \in 1..Len(files) |->
        BuildFile(generate_id("build_" \o files[i]), files[i], "Sources", generate_id(files[i]))]

\* ref_match and build_match: the AppDelegate.swift records
FPReferenceFound(c) ==
    /\ \E i \in 1..Len(c) : c[i].k = "FileRef" /\ c[i].name = "AppDelegate.swift"
    /\ \E i \in 1..Len(c) : c[i].k = "BuildFile" /\ c[i].name = "AppDelegate.swift"
                            /\ c[i].ph = "Sources"

\* the kinds of item whose text holds no semicolon
NoSemicolon == {"Begin", "End", "Head", "Open", "Member", "Child", "Bare"}

\* re.sub(rf'[A-F0-9]{24} /\* {filename}[^;]*;', '', content): a match starts
\* at every identifier annotated with the file name and runs to the next
\* semicolon.  Of a record line (PBXBuildFile, PBXFileReference) that leaves
\* the rest of the line; from a list entry the match runs over the entries
\* that follow it and over the line with the next semicolon (the list closer
\* when the list is closed).  A record line in which a match ends keeps its
\* rest.  Of a 25-character identifier the first character stays.
FPMatchStart(c, filename, i) == c[i].name = filename /\ c[i].k \in {"Member", "Child"}

\* item i lies behind a list entry at which a match started, with no
\* semicolon in between
FPEating(c, filename, i) ==
    \E j \in 1..(i - 1) :
        /\ FPMatchStart(c, filename, j)
        /\ \A m \in (j + 1)..(i - 1) : c[m].k \in NoSemicolon

FPRemove(c, filename) ==
    Flatten([i \in 1..Len(c) |->
               IF FPEating(c, filename, i)
               THEN IF c[i].k \in {"BuildFile", "FileRef", "Junk"} THEN <<Junk(c[i])>> ELSE <<>>
               ELSE IF c[i].name = filename /\ c[i].k \in {"BuildFile", "FileRef"}
                    THEN <<Junk(c[i])>>
                    ELSE IF FPMatchStart(c, filename, i)
                         THEN (IF Is24Hex(c[i].id) THEN <<>> ELSE <<Junk(c[i])>>)
                         ELSE <<c[i]>>], 1, Len(c))

\* for filename in files_to_add: content = re.sub(...)
RECURSIVE FPRemoveAll(_, _)
FPRemoveAll(c, n) ==
    IF n > Len(SwiftFiles) THEN c
    ELSE FPRemoveAll(FPRemove(c, SwiftFiles[n]), n + 1)

\* group_match:
\*   (A2[A-F0-9]{23}) /* DualCameraApp */ = {\s+isa = PBXGroup;\s+children = \((.*?)\);
\* <<head, closer>> or <<0, 0>>
FPGroupMatch(c) ==
    LET g == First({h \in 1..(Len(c) - 2) :
                      /\ c[h].k = "Head" /\ IsA2(c[h].id) /\ c[h].name = "DualCameraApp"
                      /\ c[h + 1] = Isa("PBXGroup") /\ c[h + 2] = Open("children")
                      /\ NextCloseAfter(c, h + 2) # 0})
    IN  IF g = 0 THEN <<0, 0>> ELSE <<g, NextCloseAfter(c, g + 2)>>

\* (/* Begin <isa> section */\n)(.*?)(\n\s*/* End <isa> section */): the
\* position of the End marker, behind at least one line of the section, or 0
FPSectionEnd(c, isa) ==
    LET b == First(At(c, Begin(isa)))
    IN  IF b = 0 THEN 0 ELSE First({e \in (b + 2)..Len(c) : c[e].k = "End" /\ c[e].name = isa})

\* sources_phase_match: (/* Sources */.*?files = \(\n)(.*?)(\n\s+\);) : the
\* position of the closer that is group(3), or 0
FPSourcesClose(c) ==
    LET s == First(SourcesAnnotations(c))
        o == NextAfter(c, s, {Open("files")})
    IN  IF o = 0 THEN 0
        ELSE First({z \in (o + 2)..Len(c) : c[z].k = "Close" /\ c[z].ind >= 1})

FPFound(c) ==
    /\ FPReferenceFound(c)
    /\ FPGroupMatch(FPRemoveAll(c, 1))[1] # 0
    /\ FPSectionEnd(FPRemoveAll(c, 1), "PBXFileReference") # 0
    /\ FPSectionEnd(FPRemoveAll(c, 1), "PBXBuildFile") # 0
    /\ FPSourcesClose(FPRemoveAll(c, 1)) # 0

FPNewFileRefs == new_file_refs(SwiftFiles)
FPNewBuildFiles == new_build_files(SwiftFiles)
FPNewGroupChildren ==
    [i \in 1..Len(SwiftFiles) |-> Child(generate_id(SwiftFiles[i]), SwiftFiles[i], 4)]
FPNewSourceFiles ==
    [i \in 1..Len(SwiftFiles) |-> Member(generate_id("build_" \o SwiftFiles[i]), SwiftFiles[i], "Sources", 4)]

\* content.replace(m.group(3), new + m.group(3)) where group(3) is the line
\* break, the white space and the text of item t: new goes before every
\* item of the content that equals t
FPInsertBeforeEvery(c, t, new) ==
    Flatten([i \in 1..Len(c) |-> (IF c[i] = t THEN new ELSE <<>>) \o <<c[i]>>], 1, Len(c))

\* [c.strip() for c in children if c.strip()]
StripEach(s) == [i \in 1..Len(s) |-> [s[i] EXCEPT !.ind = 0]]

\* the content the script writes; r is the content after the removals
FPEdit(r) ==
    LET grp == FPGroupMatch(r)
        c1 == FPInsertBeforeEvery(r, r[FPSectionEnd(r, "PBXFileReference")], FPNewFileRefs)
        c2 == FPInsertBeforeEvery(c1, r[FPSectionEnd(r, "PBXBuildFile")], FPNewBuildFiles)
        old_group == Span(r, grp[1], grp[2])
        new_group == SubSeq(old_group, 1, 3)
                     \o StripEach(SubSeq(r, grp[1] + 3, grp[2] - 1))
                     \o FPNewGroupChildren \o <<Close(3)>>
        c3 == ReplaceSpan(c2, old_group, new_group)
    IN  FPInsertBeforeEvery(c3, r[FPSourcesClose(r)], FPNewSourceFiles)

FixProject ==
    /\ Len(log) < MaxRuns
    /\ prev' = content
    /\ UNCHANGED <<disk, batch>>
    /\ IF FPFound(content)
       THEN /\ content' = FPEdit(FPRemoveAll(content, 1))
            /\ log' = Append(log, Record("fix_project", TRUE))
       ELSE /\ content' = content
            /\ log' = Append(log, Record("fix_project", FALSE))

\* the lists files_to_add may be: names, and names that begin with build_
FilesToAddLists ==
    LET names == {AllSwiftFiles[n] : n \in 1..Len(AllSwiftFiles)}
                 \cup {"build_" \o AllSwiftFiles[n] : n \in 1..Len(AllSwiftFiles)}
    IN  UNION {[1..n -> names] : n \in 0..NumSwiftFiles}

\* the loop that builds the new entries (for filename in files_to_add), for
\* a list files_to_add that is an input
BuildNewEntries ==
    /\ log = <<>>
    /\ prev' = content
    /\ content' = new_file_refs(disk) \o new_build_files(disk)
    /\ log' = Append(log, Record("generate_id", TRUE))
    /\ UNCHANGED <<disk, batch>>

InitGen ==
    /\ content = <<>>
    /\ prev = <<>>
    /\ log = <<>>
    /\ disk \in FilesToAddLists
    /\ pos = 0 /\ success_count = 0 /\ add_file_rb = FALSE

NextGen == BuildNewEntries

SpecGen == InitGen /\ [][NextGen]_vars

(***************************************************************************)
(* add_essential_files.py: main() goes through essential_files and calls   *)
(* add_file_to_project for every file that is on disk.  The descriptor is   *)
(* written by the xcodeproj gem the Ruby script loads, not by this program; *)
(* the state here is main's loop and the temporary script add_file.rb.      *)
(***************************************************************************)
\* the number of entries of essential_files that are modelled (the source has 11)
NumEssential == 4

essential_files ==
    SubSeq(<<"DualCameraApp/VisualCountdownView.swift",
             "DualCameraApp/SettingsManager.swift",
             "DualCameraApp/TripleOutputControlView.swift",
             "DualCameraApp/CameraControlsView.swift",
             "DualCameraApp/AdvancedCameraControlsManager.swift",
             "DualCameraApp/AudioControlsView.swift">>, 1, NumEssential)

\* os.path.exists(file_path)
path_exists(file_path) == \E k \in DOMAIN disk : disk[k] = file_path

\* what can happen inside the try block: gem install fails, open() or write()
\* of add_file.rb fails, ruby add_file.rb fails, or all three succeed
Outcomes == {"gem_fails", "write_fails", "ruby_fails", "ok"}

\* whether add_file.rb exists when the try block is left: open(..., 'w')
\* creates it unless the block was left before
after_try(rb, outcome) == rb \/ outcome \in {"ruby_fails", "ok"}

\* a finally block without the removal
no_cleanup(rb) == rb

\* finally: if os.path.exists('add_file.rb'): os.remove('add_file.rb')
cleanup(rb) == IF rb THEN FALSE ELSE rb

\* return True at the end of the try block, return False in except Exception
add_file_to_project(outcome) == outcome = "ok"

\* one iteration of the for loop of main(), with the whole call of
\* add_file_to_project in it
MainLoopStep ==
    /\ pos < Len(essential_files)
    /\ pos' = pos + 1
    /\ IF path_exists(essential_files[pos + 1])
       THEN \E outcome \in Outcomes :
               /\ add_file_rb' = cleanup(after_try(add_file_rb, outcome))
               /\ success_count' = success_count
                                   + (IF add_file_to_project(outcome) THEN 1 ELSE 0)
               /\ log' = Append(log, Record("add_file_to_project",
                                            add_file_to_project(outcome)))
       ELSE UNCHANGED <<add_file_rb, success_count, log>>
    /\ UNCHANGED <<content, prev, disk>>

\* the files of essential_files that are on disk, and an add_file.rb that may
\* be left from an earlier, interrupted run
InitE ==
    /\ content = <<>>
    /\ prev = <<>>
    /\ log = <<>>
    /\ \E S \in SUBSET Range(essential_files) :
          disk = SelectSeq(essential_files, LAMBDA f : f \in S)
    /\ pos = 0
    /\ success_count = 0
    /\ add_file_rb \in BOOLEAN

NextE == MainLoopStep

\* the loop has no blocking step of its own: subprocess.run returns when the
\* child process ends
SpecE == InitE /\ [][NextE]_vars /\ WF_vars(NextE)

(***************************************************************************)
(* Descriptors of a project with the ids A20000nn294A0000000000001         *)
(***************************************************************************)
\* target: the PBXNativeTarget record (whose buildPhases list names the
\*         phases) stands before the build phases, as Xcode writes it
\* resources: there is a Resources phase before the Sources phase
\* named: the group record has a name attribute (else a path attribute)
\* old: the descriptor already has entries for ZoomControl.swift
DescB(target, resources, named, old) ==
    <<Begin("PBXBuildFile")>>
    \o (IF old THEN <<BuildFile(IdA2(103), "ZoomControl.swift", "Sources", IdA2(104))>> ELSE <<>>)
    \o <<BuildFile(IdA2(101), "AppDelegate.swift", "Sources", IdA2(102))>>
    \o (IF resources
        THEN <<BuildFile(IdA2(105), "Assets.xcassets", "Resources", IdA2(106))>> ELSE <<>>)
    \o <<End("PBXBuildFile"), Begin("PBXFileReference")>>
    \o (IF old THEN <<FileRef(IdA2(104), "ZoomControl.swift", "ZoomControl.swift")>> ELSE <<>>)
    \o <<FileRef(IdA2(102), "AppDelegate.swift", "AppDelegate.swift")>>
    \o (IF resources THEN <<FileRef(IdA2(106), "Assets.xcassets", "Assets.xcassets")>> ELSE <<>>)
    \o <<End("PBXFileReference"), Begin("PBXGroup"),
         RecHead(IdA2(1), "DualCameraApp"), Isa("PBXGroup"), Open("children")>>
    \o (IF old THEN <<Child(IdA2(104), "ZoomControl.swift", 4)>> ELSE <<>>)
    \o <<Child(IdA2(102), "AppDelegate.swift", 4)>>
    \o (IF resources THEN <<Child(IdA2(106), "Assets.xcassets", 4)>> ELSE <<>>)
    \o <<Close(3), Attr(IF named THEN "name" ELSE "path", "DualCameraApp"), ObjEnd,
         End("PBXGroup")>>
    \o (IF target
        THEN <<Begin("PBXNativeTarget"),
               RecHead(IdA2(120), "DualCameraApp"), Isa("PBXNativeTarget"), Open("buildPhases"),
               Child(IdA2(110), "Sources", 4)>>
             \o (IF resources THEN <<Child(IdA2(111), "Resources", 4)>> ELSE <<>>)
             \o <<Close(3), Attr("name", "DualCameraApp"), ObjEnd, End("PBXNativeTarget")>>
        ELSE <<>>)
    \o (IF resources
        THEN <<Begin("PBXResourcesBuildPhase"),
               RecHead(IdA2(111), "Resources"), Isa("PBXResourcesBuildPhase"), Mask, Open("files"),
               Member(IdA2(105), "Assets.xcassets", "Resources", 4),
               Close(3), RunOnly, ObjEnd,
               End("PBXResourcesBuildPhase")>>
        ELSE <<>>)
    \o <<Begin("PBXSourcesBuildPhase"),
         RecHead(IdA2(110), "Sources"), Isa("PBXSourcesBuildPhase"), Mask, Open("files")>>
    \o (IF old THEN <<Member(IdA2(103), "ZoomControl.swift", "Sources", 4)>> ELSE <<>>)
    \o <<Member(IdA2(101), "AppDelegate.swift", "Sources", 4),
         Close(3), RunOnly, ObjEnd,
         End("PBXSourcesBuildPhase")>>

\* a descriptor without a PBXFileReference section
DescNoSections ==
    <<Begin("PBXGroup"),
      RecHead(IdA2(1), "DualCameraApp"), Isa("PBXGroup"), Open("children"), Close(3),
      Attr("name", "DualCameraApp"), ObjEnd,
      End("PBXGroup")>>

\* the section Xcode writes behind the build phases; the list of a build
\* setting is closed one tab deeper than the lists of the records:
\*     buildSettings = {
\*         LD_RUNPATH_SEARCH_PATHS = (
\*             "$(inherited)",
\*         );
\*     };
XCBuildConfigurationSection ==
    <<Begin("XCBuildConfiguration"),
      RecHead(IdA2(130), "Debug"), Isa("XCBuildConfiguration"),
      Tok("Bare", -1, "buildSettings", "", -1, "", 3),
      [Open("LD_RUNPATH_SEARCH_PATHS") EXCEPT !.ind = 4],
      Tok("Bare", -1, "$(inherited)", "", -1, "", 5),
      Close(4),
      [ObjEnd EXCEPT !.ind = 3],
      Attr("name", "Debug"), ObjEnd,
      End("XCBuildConfiguration")>>

DescriptorsB ==
    {DescB(target, resources, named, old) \o settings :
        target \in BOOLEAN, resources \in BOOLEAN, named \in BOOLEAN, old \in BOOLEAN,
        settings \in {<<>>, XCBuildConfigurationSection}}
        \cup {DescNoSections}

(***************************************************************************)
(* The scripts that add ZoomControl.swift, ... to a project                *)
(***************************************************************************)
InitHex ==
    /\ content \in DescriptorsB
    /\ prev = content
    /\ log = <<>>
    /\ NoBatch

NextHex ==
    \/ AddSwiftFiles
    \/ FixProject

SpecHex == InitHex /\ [][NextHex]_vars

(***************************************************************************)
(* Z/add_files_to_xcode.py                                                 *)
(***************************************************************************)
\* what the two glob calls may find under Core, App, VideoProcessing and
\* Features, as paths relative to base_path
AllPaths == <<"Core/A.swift", "Core/S.metal", "App/A.swift">>
DiscoveredFiles == {SubSeq(AllPaths, 1, n) : n \in 0..MaxFiles}

\* os.path.basename(file_path)
basename(path) ==
    CASE path = "Core/A.swift" -> "A.swift"
      [] path = "App/A.swift" -> "A.swift"
      [] path = "Core/S.metal" -> "S.metal"

\* frameworks, and the path written for each
AllFrameworks ==
    << [name |-> "AVFoundation.framework", path |-> "System/Library/Frameworks/AVFoundation.framework"],
       [name |-> "CoreImage.framework", path |-> "System/Library/Frameworks/CoreImage.framework"],
       [name |-> "Metal.framework", path |-> "System/Library/Frameworks/Metal.framework"],
       [name |-> "MetalKit.framework", path |-> "System/Library/Frameworks/MetalKit.framework"],
       [name |-> "Photos.framework", path |-> "System/Library/Frameworks/Photos.framework"],
       [name |-> "PhotosUI.framework", path |-> "System/Library/Frameworks/PhotosUI.framework"],
       [name |-> "Combine.framework", path |-> "System/Library/Frameworks/Combine.framework"],
       [name |-> "SwiftUI.framework", path |-> "System/Library/Frameworks/SwiftUI.framework"] >>
frameworks == SubSeq(AllFrameworks, 1, NumFrameworks)

\* the draws of uuid4 in program order: two for each file, then two for
\* each framework
ZFileRefId(draws, i) == draws[2 * i - 1]
ZBuildFileId(draws, i) == draws[2 * i]
ZFwRefId(files, draws, i) == draws[2 * Len(files) + 2 * i - 1]
ZFwBuildId(files, draws, i) == draws[2 * Len(files) + 2 * i]

new_build_entries(files, draws) ==
    [i \in 1..Len(files) |->
        BuildFile(ZBuildFileId(draws, i), basename(files[i]), "Sources", ZFileRefId(draws, i))]
new_file_ref_entries(files, draws) ==
    [i \in 1..Len(files) |-> FileRef(ZFileRefId(draws, i), basename(files[i]), files[i])]
new_source_entries(files, draws) ==
    [i \in 1..Len(files) |-> Member(ZBuildFileId(draws, i), basename(files[i]), "Sources", 4)]
new_fw_refs(files, draws) ==
    [i \in 1..Len(frameworks) |->
        FileRef(ZFwRefId(files, draws, i), frameworks[i].name, frameworks[i].path)]
new_fw_builds(files, draws) ==
    [i \in 1..Len(frameworks) |->
        BuildFile(ZFwBuildId(files, draws, i), frameworks[i].name, "Frameworks",
                  ZFwRefId(files, draws, i))]
new_fw_entries(files, draws) ==
    [i \in 1..Len(frameworks) |->
        Member(ZFwBuildId(files, draws, i), frameworks[i].name, "Frameworks", 4)]

\* new put in front of item t, which stands behind w tabs: the white space
\* that stood before t now stands before the first item of new
ZInFrontOf(t, new, w) ==
    IF new = <<>> THEN <<t>>
    ELSE <<[new[1] EXCEPT !.ind = t.ind + new[1].ind]>> \o Tail(new) \o <<[t EXCEPT !.ind = w]>>

\* content.replace("/* End <isa> section */", ''.join(new) + "/* End <isa> section */"):
\* at every End marker of the section kind; nothing happens without one
ZInsertBeforeMarker(c, isa, new) ==
    Flatten([i \in 1..Len(c) |->
               IF c[i].k = "End" /\ c[i].name = isa THEN ZInFrontOf(c[i], new, 0) ELSE <<c[i]>>],
            1, Len(c))

\* sources_pattern:
\*   (/* Begin PBXSourcesBuildPhase section */.*?files = \()(.*?)(\);\s+runOnlyForDeploymentPostprocessing)
\* <<opener, closer>> of the list that is group(2), or <<0, 0>>
ZSourcesMatch(c) ==
    LET b == First({i \in 1..Len(c) : c[i].k = "Begin" /\ c[i].name = "PBXSourcesBuildPhase"})
        o == IF b = 0 THEN 0
             ELSE First({i \in (b + 1)..Len(c) : c[i].k = "Open" /\ c[i].name = "files"})
        z == IF o = 0 THEN 0
             ELSE First({i \in (o + 1)..(Len(c) - 1) : c[i].k = "Close" /\ c[i + 1].k = "RunOnly"})
    IN  IF z = 0 THEN <<0, 0>> ELSE <<o, z>>

\* new_sources = before + existing + ''.join(new_source_entries) + after
ZSourcesEdit(c, new) ==
    LET mt == ZSourcesMatch(c)
    IN  IF mt[1] = 0 THEN c
        ELSE SubSeq(c, 1, mt[2] - 1) \o ZInFrontOf(c[mt[2]], new, 0)
             \o SubSeq(c, mt[2] + 1, Len(c))

\* frameworks_pattern:
\*   (A1000000294A0000000000000 /* Frameworks */ = \{.*?files = \()(.*?)(\);)
\* <<opener, closer>> of the list that is group(2), or <<0, 0>>
ZFrameworksMatch(c) ==
    LET h == First({i \in 1..Len(c) : c[i].k = "Head" /\ c[i].id = IdSuffix0(0)
                                      /\ c[i].name = "Frameworks"})
        o == IF h = 0 THEN 0
             ELSE First({i \in (h + 1)..Len(c) : c[i].k = "Open" /\ c[i].name = "files"})
        z == NextCloseAfter(c, o)
    IN  IF z = 0 THEN <<0, 0>> ELSE <<o, z>>

\* new_frameworks = before + ''.join(new_fw_entries) + existing + after
ZFrameworksEdit(c, new) ==
    LET mt == ZFrameworksMatch(c)
    IN  IF mt[1] = 0 THEN c
        ELSE SubSeq(c, 1, mt[1]) \o new \o SubSeq(c, mt[1] + 1, Len(c))

\* the content the script writes
ZEdit(c, files, draws) ==
    LET c1 == ZInsertBeforeMarker(c, "PBXBuildFile", new_build_entries(files, draws))
        c2 == ZInsertBeforeMarker(c1, "PBXFileReference", new_file_ref_entries(files, draws))
        c3 == ZSourcesEdit(c2, new_source_entries(files, draws))
        c4 == ZInsertBeforeMarker(c3, "PBXFileReference", new_fw_refs(files, draws))
        c5 == ZInsertBeforeMarker(c4, "PBXBuildFile", new_fw_builds(files, draws))
    IN  ZFrameworksEdit(c5, new_fw_entries(files, draws))

AddFilesToXcode ==
    /\ Len(log) < MaxRuns
    /\ prev' = content
    /\ UNCHANGED <<disk, batch>>
    /\ \E files \in DiscoveredFiles :
         \E draws \in UuidDraws(Hex24Ids(content), 2 * Len(files) + 2 * Len(frameworks),
                                MaxCollisions) :
            content' = ZEdit(content, files, draws)
    /\ log' = Append(log, Record("add_files_to_xcode", TRUE))

(***************************************************************************)
(* Descriptors of the DualApp project                                      *)
(***************************************************************************)
\* bf, fr, src: the section comments of the PBXBuildFile, PBXFileReference
\*     and PBXSourcesBuildPhase sections are there
\* fw:  the Frameworks phase has the id A1000000294A0000000000000
\* old: Core/A.swift and UIKit.framework are already in the project
DescZ(bf, fr, src, fw, old) ==
    (IF bf THEN <<Begin("PBXBuildFile")>> ELSE <<>>)
    \o <<BuildFile(IdSuffix1(11), "DualAppApp.swift", "Sources", IdSuffix1(12))>>
    \o (IF old THEN <<BuildFile(IdSuffix1(13), "A.swift", "Sources", IdSuffix1(14)),
                      BuildFile(IdSuffix1(15), "UIKit.framework", "Frameworks", IdSuffix1(16))>>
        ELSE <<>>)
    \o (IF bf THEN <<End("PBXBuildFile")>> ELSE <<>>)
    \o (IF fr THEN <<Begin("PBXFileReference")>> ELSE <<>>)
    \o <<FileRef(IdSuffix1(12), "DualAppApp.swift", "App/DualAppApp.swift")>>
    \o (IF old THEN <<FileRef(IdSuffix1(14), "A.swift", "Core/A.swift"),
                      FileRef(IdSuffix1(16), "UIKit.framework",
                              "System/Library/Frameworks/UIKit.framework")>>
        ELSE <<>>)
    \o (IF fr THEN <<End("PBXFileReference")>> ELSE <<>>)
    \o <<Begin("PBXFrameworksBuildPhase"),
         RecHead(IF fw THEN IdSuffix0(0) ELSE IdSuffix0(5), "Frameworks"),
         Isa("PBXFrameworksBuildPhase"), Mask, Open("files")>>
    \o (IF old THEN <<Member(IdSuffix1(15), "UIKit.framework", "Frameworks", 4)>> ELSE <<>>)
    \o <<Close(3), RunOnly, ObjEnd, End("PBXFrameworksBuildPhase")>>
    \o (IF src THEN <<Begin("PBXSourcesBuildPhase")>> ELSE <<>>)
    \o <<RecHead(IdSuffix0(1), "Sources"), Isa("PBXSourcesBuildPhase"), Mask, Open("files"),
         Member(IdSuffix1(11), "DualAppApp.swift", "Sources", 4)>>
    \o (IF old THEN <<Member(IdSuffix1(13), "A.swift", "Sources", 4)>> ELSE <<>>)
    \o <<Close(3), RunOnly, ObjEnd>>
    \o (IF src THEN <<End("PBXSourcesBuildPhase")>> ELSE <<>>)

\* the whole descriptor, and the descriptors that lack one of the regions
DescriptorsZ ==
    {DescZ(r[1], r[2], r[3], r[4], old) :
        r \in {f \in [1..4 -> BOOLEAN] : Cardinality({i \in 1..4 : ~f[i]}) <= 1},
        old \in BOOLEAN}

(***************************************************************************)
(* The script that adds the discovered files to the DualApp project        *)
(***************************************************************************)
InitZ ==
    /\ content \in DescriptorsZ
    /\ prev = content
    /\ log = <<>>
    /\ NoBatch

NextZ == AddFilesToXcode

SpecZ == InitZ /\ [][NextZ]_vars

(***************************************************************************)
(* fix_xcode_project.py                                                    *)
(***************************************************************************)
\* what glob.glob("DualCameraApp/*.swift") may return, as base names
DirNames ==
    {"AppDelegate.swift", "CameraPreviewView.swift", "VisualCountdownView.swift",
     "SettingsManager.swift"}
DirListings ==
    UNION {{s \in [1..n -> DirNames] : \A a, b \in 1..n : a # b => s[a] # s[b]} : n \in 0..MaxDir}

\* number of characters of an identifier
IdChars(id) == IF Is24Hex(id) THEN 24 ELSE IF id >= IdLong(0) THEN 41 ELSE 25

\* number of characters of the line an item is
Chars(t) ==
    t.ind +
    CASE t.k = "Begin" -> Len("/* Begin ") + Len(t.name) + Len(" section */")
      [] t.k = "End" -> Len("/* End ") + Len(t.name) + Len(" section */")
      [] t.k = "BuildFile" ->
            IdChars(t.id) + Len(" /* ") + Len(t.name) + Len(" in ") + Len(t.ph)
            + Len(" */ = {isa = PBXBuildFile; fileRef = ") + IdChars(t.ref)
            + Len(" /* ") + Len(t.name) + Len(" */; };")
      [] t.k = "FileRef" ->
            IdChars(t.id) + Len(" /* ") + Len(t.name)
            + Len(" */ = {isa = PBXFileReference; lastKnownFileType = sourcecode.swift; path = ")
            + Len(t.path) + Len("; sourceTree = \"<group>\"; };")
      [] t.k = "Head" -> IdChars(t.id) + Len(" /* ") + Len(t.name) + Len(" */ = {")
      [] t.k = "Isa" -> Len("isa = ") + Len(t.name) + Len(";")
      [] t.k = "Mask" -> Len("buildActionMask = 2147483647;")
      [] t.k = "Open" -> Len(t.name) + Len(" = (")
      [] t.k = "Member" ->
            IdChars(t.id) + Len(" /* ") + Len(t.name) + Len(" in ") + Len(t.ph) + Len(" */,")
      [] t.k = "Child" -> IdChars(t.id) + Len(" /* ") + Len(t.name) + Len(" */,")
      [] t.k = "Close" -> Len(");")
      [] t.k = "RunOnly" -> Len("runOnlyForDeploymentPostprocessing = 0;")
      [] t.k = "Attr" -> Len(t.ph) + Len(" = ") + Len(t.name) + Len(";")
      [] t.k = "ObjEnd" -> Len("};")
      [] OTHER -> Len(t.name)

\* number of characters of the lines lo..hi with their line breaks
RECURSIVE TextLen(_, _, _)
TextLen(c, lo, hi) ==
    IF lo > hi THEN 0
    ELSE IF lo = hi THEN Chars(c[lo]) + 1
    ELSE TextLen(c, lo, (lo + hi) \div 2) + TextLen(c, (lo + hi) \div 2 + 1, hi)

\* re.search(<text of the line p>, content).end(): the offset, in characters,
\* of the end of line p
MatchEnd(c, p) == TextLen(c, 1, p - 1) + Chars(c[p])

\* lines.insert(idx, x): behind the last line when idx is no index of lines
PyInsert(lines, idx, x) ==
    IF idx >= Len(lines) THEN Append(lines, x) ELSE InsertBefore(lines, idx + 1, <<x>>)

\* for entry in reversed(entries): lines.insert(idx, entry)
RECURSIVE PyInsertReversed(_, _, _)
PyInsertReversed(lines, idx, entries) ==
    IF entries = <<>> THEN lines
    ELSE PyInsertReversed(PyInsert(lines, idx, Last(entries)), idx,
                          SubSeq(entries, 1, Len(entries) - 1))

\* project_files: the names (.+\.swift) of the PBXFileReference record lines
project_files(c) ==
    {c[p].name : p \in {q \in 1..Len(c) : c[q].k = "FileRef" /\ c[q].name \in SwiftNames}}

\* a get_missing_swift_files() that does not look at the project: every
\* file of the directory counts as missing
get_missing_unfiltered(c, dir) == dir

\* get_missing_swift_files(): [f for f in directory_files if f not in project_files]
get_missing_swift_files(c, dir) ==
    LET K == {n \in 1..Len(dir) : dir[n] \notin project_files(c)}
    IN  Flatten([n \in 1..Len(dir) |-> IF n \in K THEN <<dir[n]>> ELSE <<>>], 1, Len(dir))

\* the four searches of update_project_file(): positions of the lines found, or 0
pbx_build_file_section(c) == First(At(c, Begin("PBXBuildFile")))
pbx_file_reference_section(c) == First(At(c, Begin("PBXFileReference")))
pbx_sources_build_phase(c) == First(At(c, Begin("PBXSourcesBuildPhase")))
dual_camera_app_group(c) ==
    First({p \in 1..Len(c) : c[p].k = "Head" /\ c[p].id = IdSuffix1(24)
                             /\ c[p].name = "DualCameraApp"})

XFound(c) ==
    /\ pbx_build_file_section(c) # 0
    /\ pbx_file_reference_section(c) # 0
    /\ pbx_sources_build_phase(c) # 0
    /\ dual_camera_app_group(c) # 0

\* generate_uuid() + "294A0000000000001"
XFileRefId(draws, n) == IdLong(draws[2 * n - 1] - IdHex(0))
XBuildFileId(draws, n) == IdLong(draws[2 * n] - IdHex(0))

\* the 24-digit values whose 41-character identifiers are in the descriptor
LongPrefixes(c) ==
    {IdHex(c[p].id - IdLong(0)) : p \in {q \in 1..Len(c) : c[q].id >= IdLong(0)}}
    \cup {IdHex(c[p].ref - IdLong(0)) : p \in {q \in 1..Len(c) : c[q].ref >= IdLong(0)}}

build_file_additions(missing, draws) ==
    [n \in 1..Len(missing) |->
        BuildFile(XBuildFileId(draws, n), missing[n], "Sources", XFileRefId(draws, n))]
file_reference_additions(missing, draws) ==
    [n \in 1..Len(missing) |-> FileRef(XFileRefId(draws, n), missing[n], missing[n])]
sources_build_phase_additions(missing, draws) ==
    [n \in 1..Len(missing) |-> Member(XBuildFileId(draws, n), missing[n], "Sources", 3)]
group_additions(missing, draws) ==
    [n \in 1..Len(missing) |-> Child(XFileRefId(draws, n), missing[n], 3)]

\* the index of the first line from index start on that is ");" and is
\* followed by a line with runOnlyForDeploymentPostprocessing, or start
sources_insert(lines, start) ==
    LET H == {j \in start..(Len(lines) - 1) :
                 /\ j + 1 < Len(lines)
                 /\ lines[j + 1].k = "Close"
                 /\ lines[j + 2].k = "RunOnly"}
    IN  IF H = {} THEN start ELSE First(H)

\* the index of the first line ");" behind the first line "children = (",
\* both searched from index start on; start where a search finds nothing
group_insert(lines, start) ==
    LET H1 == {j \in start..(Len(lines) - 1) : lines[j + 1] = [Open("children") EXCEPT !.ind = lines[j + 1].ind]}
        g1 == IF H1 = {} THEN start ELSE First(H1) + 1
        H2 == {j \in g1..(Len(lines) - 1) : lines[j + 1].k = "Close"}
    IN  IF H2 = {} THEN g1 ELSE First(H2)

\* the lines update_project_file() writes; c is the content read
XEdit(c, missing, draws) ==
    LET build_file_insert ==
            MatchEnd(c, pbx_build_file_section(c)) + Len("/* Begin PBXBuildFile section */") + 1
        file_ref_insert ==
            MatchEnd(c, pbx_file_reference_section(c))
            + Len("/* Begin PBXFileReference section */") + 1
        sources_start ==
            MatchEnd(c, pbx_sources_build_phase(c))
            + Len("/* Begin PBXSourcesBuildPhase section */") + 1
        l1 == PyInsertReversed(c, build_file_insert, build_file_additions(missing, draws))
        l2 == PyInsertReversed(l1, file_ref_insert, file_reference_additions(missing, draws))
        l3 == PyInsertReversed(l2, sources_insert(l2, sources_start),
                               sources_build_phase_additions(missing, draws))
    IN  PyInsertReversed(l3, group_insert(l3, MatchEnd(c, dual_camera_app_group(c))),
                         group_additions(missing, draws))

\* update_project_file()
FixXcodeProject ==
    /\ Len(log) < MaxRuns
    /\ prev' = content
    /\ UNCHANGED <<disk, batch>>
    /\ LET missing == get_missing_swift_files(content, disk)
       IN  IF missing = <<>> \/ ~XFound(content)
           THEN /\ content' = content
                /\ log' = Append(log, Record("fix_xcode_project", FALSE))
           ELSE /\ \E draws \in UuidDraws(LongPrefixes(content), 2 * Len(missing), MaxCollisions) :
                     content' = XEdit(content, missing, draws)
                /\ log' = Append(log, Record("fix_xcode_project", TRUE))

InitX ==
    /\ content \in DescriptorsA
    /\ prev = content
    /\ log = <<>>
    /\ disk \in DirListings
    /\ pos = 0 /\ success_count = 0 /\ add_file_rb = FALSE

NextX == FixXcodeProject

SpecX == InitX /\ [][NextX]_vars

(***************************************************************************)
(* The structure a descriptor describes                                    *)
(***************************************************************************)
IsRecord(t) == t.k \in {"BuildFile", "FileRef", "Head"}

\* no two records share an identifier
UniqueIds(c) ==
    \A i, j \in 1..Len(c) : (i < j /\ IsRecord(c[i]) /\ IsRecord(c[j])) => c[i].id # c[j].id

\* position of the opener of the list that entry i stands in, or 0
ListOf(c, i) ==
    IF \E o \in 1..(i - 1) : c[o].k = "Open" /\ \A m \in (o + 1)..(i - 1) : c[m].k \in {"Member", "Child"}
    THEN CHOOSE o \in 1..(i - 1) : c[o].k = "Open" /\ \A m \in (o + 1)..(i - 1) : c[m].k \in {"Member", "Child"}
    ELSE 0

\* position of the record head that owns the list opened at o, or 0
OwnerOf(c, o) == LastPos({h \in 1..o : c[h].k = "Head"})

\* the isa of the record whose head is at h
IsaOf(c, h) == IF h > 0 /\ h < Len(c) /\ c[h + 1].k = "Isa" THEN c[h + 1].name ELSE ""

\* entry i is an entry of a <list> list of a record of kind <isa>
EntryOf(c, i, list, isa) ==
    /\ c[i].k \in {"Member", "Child"}
    /\ ListOf(c, i) # 0
    /\ c[ListOf(c, i)].name = list
    /\ IsaOf(c, OwnerOf(c, ListOf(c, i))) = isa

PhaseKinds == {"PBXSourcesBuildPhase", "PBXResourcesBuildPhase", "PBXFrameworksBuildPhase"}

\* the entries (ids, in order) of the list opened at o
RECURSIVE EntriesFrom(_, _)
EntriesFrom(c, i) ==
    IF i > Len(c) \/ c[i].k \notin {"Member", "Child"} THEN <<>>
    ELSE <<c[i].id>> \o EntriesFrom(c, i + 1)

BuildFileIds(c) == {c[i].id : i \in {j \in 1..Len(c) : c[j].k = "BuildFile"}}
FileRefIds(c) == {c[i].id : i \in {j \in 1..Len(c) : c[j].k = "FileRef"}}
GroupIds(c) == {c[i].id : i \in {j \in 1..Len(c) : c[j].k = "Head" /\ IsaOf(c, j) = "PBXGroup"}}

\* referential integrity: build files name file references, phase members
\* name build files, group children name file references or groups
Integrity(c) ==
    /\ \A i \in 1..Len(c) : c[i].k = "BuildFile" => c[i].ref \in FileRefIds(c)
    /\ \A i \in 1..Len(c) :
          (\E isa \in PhaseKinds : EntryOf(c, i, "files", isa)) => c[i].id \in BuildFileIds(c)
    /\ \A i \in 1..Len(c) :
          EntryOf(c, i, "children", "PBXGroup") => c[i].id \in FileRefIds(c) \cup GroupIds(c)

\* the groups form a tree: no id is listed twice among all children lists
GroupTree(c) ==
    \A i, j \in 1..Len(c) :
        (i < j /\ EntryOf(c, i, "children", "PBXGroup") /\ EntryOf(c, j, "children", "PBXGroup"))
            => c[i].id # c[j].id

\* the items of c at the positions K, in order
SubAt(c, K) ==
    Flatten([i \in 1..Len(c) |-> IF i \in K THEN <<c[i]>> ELSE <<>>], 1, Len(c))

\* the files lists of the phases that are not Sources phases: for each, the
\* id of the phase and the ids of its members in order
OtherPhaseLists(c) ==
    {<<c[OwnerOf(c, o)].id, EntriesFrom(c, o + 1)>> :
        o \in {p \in 1..Len(c) : c[p] = Open("files") /\
                                  IsaOf(c, OwnerOf(c, p)) \in PhaseKinds \ {"PBXSourcesBuildPhase"}}}

\* an item that names one of the files fix_project.py adds
NamesSwiftFile(t) ==
    t.k \in {"BuildFile", "FileRef", "Member", "Child"} /\ t.name \in Range(SwiftFiles)

\* the positions of what fix_project.py may add: PBXBuildFile and
\* PBXFileReference records, members of a Sources phase files list and
\* children of the DualCameraApp group, each naming one of the files
FPAllowedAdditions(c) ==
    {i \in 1..Len(c) :
        /\ NamesSwiftFile(c[i])
        /\ \/ c[i].k \in {"BuildFile", "FileRef"}
           \/ c[i].k = "Member" /\ EntryOf(c, i, "files", "PBXSourcesBuildPhase")
           \/ c[i].k = "Child" /\ EntryOf(c, i, "children", "PBXGroup")
                /\ c[OwnerOf(c, ListOf(c, i))].name = "DualCameraApp"}

Ran(op) == log # <<>> /\ Last(log).op = op
RanOk(op) == Ran(op) /\ Last(log).ok

\* no two PBXFileReference records have the same path
UniquePaths(c) ==
    \A i, j \in 1..Len(c) :
        (i < j /\ c[i].k = "FileRef" /\ c[j].k = "FileRef") => c[i].path # c[j].path

\* the four regions Z/add_files_to_xcode.py edits are all there
ZRegionsPresent(c) ==
    /\ \E i \in 1..Len(c) : c[i].k = "End" /\ c[i].name = "PBXBuildFile"
    /\ \E i \in 1..Len(c) : c[i].k = "End" /\ c[i].name = "PBXFileReference"
    /\ ZSourcesMatch(c)[1] # 0
    /\ ZFrameworksMatch(c)[1] # 0

\* the members, in order, of the files list of the first phase of kind isa
PhaseMembers(c, isa) ==
    LET o == First({p \in 1..Len(c) : c[p].k = "Open" /\ c[p].name = "files"
                                      /\ IsaOf(c, OwnerOf(c, p)) = isa})
    IN  IF o = 0 THEN <<>> ELSE EntriesFrom(c, o + 1)

IsPrefix(a, b) == Len(a) <= Len(b) /\ SubSeq(b, 1, Len(a)) = a

\* line p lies between the Begin and the End marker of the section of kind isa
InSection(c, p, isa) ==
    \E b \in 1..(p - 1) :
        /\ c[b] = Begin(isa)
        /\ \A m \in b..p : c[m] # End(isa)
        /\ \E e \in (p + 1)..Len(c) : c[e] = End(isa)

\* the item starts with an identifier fix_xcode_project.py made
IsNewLine(t) == t.id >= IdLong(0)

\* number of PBXFileReference records with the display name
FileRefCount(c, name) == Cardinality({p \in 1..Len(c) : c[p].k = "FileRef" /\ c[p].name = name})

(***************************************************************************)
(* Claims                                                                  *)
(***************************************************************************)

\* C1: when add_files_to_project() of add_essential_files_simple.py returns
\* True on a descriptor in which no two records share an identifier, no two
\* records of the written descriptor share an identifier.
C1_SimpleKeepsIdsUnique ==
    (RanOk("add_essential_files_simple") /\ UniqueIds(prev)) => UniqueIds(content)

\* C2: after comprehensive_fix.py or fix_project_files.py ran on a descriptor
\* that satisfies referential integrity, referential integrity still holds.
C2_FixesKeepIntegrity ==
    ((Ran("comprehensive_fix") \/ Ran("fix_project_files")) /\ Integrity(prev))
        => Integrity(content)

\* C4: when add_files_to_project() returns True, every file of files_to_add
\* has a PBXFileReference record, a PBXBuildFile record naming that
\* reference, a member entry in the Sources phase files list and a child
\* entry in a group.
C4_SimpleAddsAllFour ==
    RanOk("add_essential_files_simple") =>
        \A n \in 1..Len(EssentialFiles) :
            \E r, b \in 1..Len(content) :
                /\ content[r].k = "FileRef" /\ content[r].name = EssentialFiles[n]
                /\ content[b].k = "BuildFile" /\ content[b].name = EssentialFiles[n]
                /\ content[b].ref = content[r].id
                /\ \E m \in 1..Len(content) :
                      EntryOf(content, m, "files", "PBXSourcesBuildPhase") /\ content[m].id = content[b].id
                /\ \E g \in 1..Len(content) :
                      EntryOf(content, g, "children", "PBXGroup") /\ content[g].id = content[r].id

\* C7: after any sequence of runs of add_essential_files_simple.py,
\* comprehensive_fix.py and fix_project_files.py on a descriptor whose groups
\* form a tree, no id is a child of two groups or twice a child of one group.
C7_GroupsStayTree == GroupTree(content)

\* C3: running add_swift_files.py twice in sequence yields the descriptor
\* the first run wrote.
C3_SwiftIdempotent ==
    (Len(log) = 2 /\ log[1] = Record("add_swift_files", TRUE)
                  /\ log[2] = Record("add_swift_files", TRUE)) => content = prev

\* C8: when fix_project.py reaches the write, the written descriptor is the
\* one read plus new PBXFileReference records, new PBXBuildFile records, new
\* children of the DualCameraApp group and new members of the Sources phase:
\* nothing that does not name a file of files_to_add is removed, altered or
\* added to (white space apart).
C8_FixProjectNonDestructive ==
    RanOk("fix_project") =>
        StripEach(SubAt(content, (1..Len(content)) \ FPAllowedAdditions(content)))
            = StripEach(SubAt(prev, {i \in 1..Len(prev) : ~NamesSwiftFile(prev[i])}))

\* C10: when the searches of add_swift_files.py succeed, the files list of
\* every phase that is not a Sources phase has the same members after the run
\* as before.
C10_SwiftOnlySourcesPhase ==
    RanOk("add_swift_files") => OtherPhaseLists(content) = OtherPhaseLists(prev)

\* C5: after a run of Z/add_files_to_xcode.py on a descriptor in which no two
\* PBXFileReference records have the same path (one that already references
\* discovered files, or one an earlier run wrote, included), no two
\* PBXFileReference records have the same path.
C5_ZUniquePaths ==
    (Ran("add_files_to_xcode") /\ UniquePaths(prev)) => UniquePaths(content)

\* C6: Z/add_files_to_xcode.py performs no partial write: on a descriptor
\* that lacks one of the regions the script edits, the descriptor written is
\* the descriptor read.
C6_ZNoPartialWrite ==
    (Ran("add_files_to_xcode") /\ ~ZRegionsPresent(prev)) => content = prev

\* C9: in the Sources phase and in the Frameworks phase, a run of
\* Z/add_files_to_xcode.py leaves the members that were there in their order
\* and places every new member behind them.
C9_ZAppendsAtEnd ==
    Ran("add_files_to_xcode") =>
        \A isa \in {"PBXSourcesBuildPhase", "PBXFrameworksBuildPhase"} :
            IsPrefix(PhaseMembers(prev, isa), PhaseMembers(content, isa))

\* C11: after a run of update_project_file() of fix_xcode_project.py that
\* wrote, every new PBXBuildFile line lies in the PBXBuildFile section, every
\* new PBXFileReference line in the PBXFileReference section, every new
\* Sources entry in the files list of the Sources phase and every new group
\* entry in the children list of the DualCameraApp group.
C11_XNewLinesInSections ==
    RanOk("fix_xcode_project") =>
        \A p \in 1..Len(content) :
            IsNewLine(content[p]) =>
                /\ content[p].k = "BuildFile" => InSection(content, p, "PBXBuildFile")
                /\ content[p].k = "FileRef" => InSection(content, p, "PBXFileReference")
                /\ content[p].k = "Member" =>
                      EntryOf(content, p, "files", "PBXSourcesBuildPhase")
                /\ content[p].k = "Child" =>
                      /\ EntryOf(content, p, "children", "PBXGroup")
                      /\ OwnerOf(content, ListOf(content, p)) = dual_camera_app_group(content)

\* C18: after a run of update_project_file() that added the missing files,
\* get_missing_swift_files() finds nothing missing in the same directory, the
\* next run writes nothing (the descriptor after two runs is the descriptor
\* after one), and a run adds no PBXFileReference record for a display name
\* that a PBXFileReference record of the descriptor has.
C18_XSecondRunAddsNothing ==
    /\ RanOk("fix_xcode_project") => get_missing_swift_files(content, disk) = <<>>
    /\ (Len(log) >= 2 /\ log[Len(log) - 1] = Record("fix_xcode_project", TRUE)
                      /\ Ran("fix_xcode_project"))
          => (content = prev /\ ~Last(log).ok)
    /\ Ran("fix_xcode_project") =>
          \A name \in SwiftNames :
              FileRefCount(prev, name) > 0 => FileRefCount(content, name) = FileRefCount(prev, name)

\* C18 witness: a second run behind a run that added files
C18_Witness ==
    /\ Len(log) = 2
    /\ log[1] = Record("fix_xcode_project", TRUE)
    /\ log[2] = Record("fix_xcode_project", FALSE)
    /\ \E p \in 1..Len(content) : IsNewLine(content[p]) /\ content[p].k = "FileRef"
    /\ \E n \in 1..Len(disk) : FileRefCount(content, disk[n]) = 1

\* C12: an identifier that Z/add_files_to_xcode.py draws is written only if
\* it differs from every identifier of the descriptor and from every
\* identifier drawn earlier in the run: a run on a descriptor in which no two
\* records share an identifier writes a descriptor in which none do.
C12_ZDrawsAreChecked ==
    (Ran("add_files_to_xcode") /\ UniqueIds(prev)) => UniqueIds(content)

\* C13: for any list files_to_add, the identifiers generate_id gives the
\* records of one run of fix_project.py are pairwise distinct.
C13_GeneratedIdsDistinct ==
    Ran("generate_id") => UniqueIds(content)

\* C14: in add_essential_files.py a missing file or a failing call does not
\* stop main(): every file on disk is attempted (one call per file on disk
\* among those the loop has passed, and the loop reaches the end of
\* essential_files), success_count is the number of calls that returned True,
\* and after a call has returned add_file.rb does not exist.
C14_FailuresArePerFile ==
    /\ [](/\ Len(log) = Cardinality({k \in 1..pos : path_exists(essential_files[k])})
          /\ success_count = Cardinality({j \in 1..Len(log) : log[j].ok})
          /\ (log # <<>> => ~add_file_rb))
    /\ <>(pos = Len(essential_files))

\* a call failed, a file was missing, a later call succeeded, the loop is done
C14_Witness ==
    /\ pos = Len(essential_files)
    /\ Len(disk) < Len(essential_files)
    /\ Len(log) >= 2
    /\ ~log[1].ok
    /\ Last(log).ok
    /\ success_count >= 1

\* C15: a second run of fix_project.py after a run that wrote leaves the
\* descriptor exactly as the first run wrote it.
C15_FixProjectTwice ==
    (/\ Len(log) = 2
     /\ log[1] = Record("fix_project", TRUE)
     /\ log[2].op = "fix_project") => content = prev

\* C16: after any sequence of runs of comprehensive_fix.py and
\* fix_project_files.py, from a descriptor whose Sources list is without
\* duplicates and ends with the CameraPreviewView.swift entry, no build-file
\* id stands more than once in the files list of the Sources phase.
C16_SourcesMembersOnce ==
    (\A j \in 1..Len(log) : log[j].op \in {"comprehensive_fix", "fix_project_files"})
        => LET ms == PhaseMembers(content, "PBXSourcesBuildPhase")
           IN  \A a, b \in 1..Len(ms) : a < b => ms[a] # ms[b]

\* both scripts have run, the first of them added the six members
C16_Witness ==
    /\ Len(log) >= 2
    /\ \A j \in 1..Len(log) : log[j].op \in {"comprehensive_fix", "fix_project_files"}
    /\ \E j \in 1..Len(log) : log[j].op = "comprehensive_fix"
    /\ \E j \in 1..Len(log) : log[j].op = "fix_project_files"
    /\ Range(FixSourcesIds) \subseteq Range(PhaseMembers(content, "PBXSourcesBuildPhase"))
    /\ Range(FixSourcesIds) \cap Range(PhaseMembers(prev, "PBXSourcesBuildPhase")) # {}

\* one of the places add_files_to_project() of add_essential_files_simple.py
\* needs is not in the descriptor c: a record or section its four searches
\* look for, the End marker of the PBXBuildFile or PBXFileReference section,
\* the line of the Sources phase before which the members go, or the
\* Products entry before which the group entries go
SimpleAnchorMissing(c) ==
    \/ ~SimpleFound(c)
    \/ At(c, End("PBXBuildFile")) = {}
    \/ At(c, End("PBXFileReference")) = {}
    \/ SimpleSourcesInsertPos(c) = 0
    \/ ~\E i \in 1..Len(c) : c[i].k = "Child" /\ c[i].id = IdSuffix1(25) /\ c[i].name = "Products"

\* C17: a run that cannot locate a required anchor or section stops before
\* the write: the descriptor is the one that was read (here for
\* add_files_to_project() of add_essential_files_simple.py).
C17_NoWriteWithoutAnchor ==
    (Ran("add_essential_files_simple") /\ SimpleAnchorMissing(prev)) => content = prev

====
